---- MODULE Spec2Model ----
(***************************************************************************)
(* Verification model of siliscopy/plot_image.py: the HSV/RGB colour codec *)
(* (hsv2rgb, rgb2hsv), the intensity accumulator (get_grey_img), the       *)
(* multi-channel colour mixer (add_color), the bounding-box scan           *)
(* (get_bounds), the quantizer (intensity2image), the noise injector       *)
(* (add_noise), the collectors and batch drivers that compute depth        *)
(* slices or timesteps serially or in a process pool, and the sweep over   *)
(* the timesteps of a time series.                                         *)
(*                                                                         *)
(* Python floats are modelled as exact rationals <<n, d>> in lowest terms  *)
(* with d > 0, so that equal values are equal tuples.  An exception raised *)
(* by a function is the result record with exc = TRUE.                     *)
(***************************************************************************)
EXTENDS Integers, Sequences, FiniteSets, TLC

(***************************************************************************)
(* Float arithmetic, exact.                                                *)
(***************************************************************************)
RECURSIVE GCD(_, _)
GCD(a, b) ==
    IF b = 0 THEN a ELSE GCD(b, a % b)

IAbs(n) ==
    IF n < 0 THEN -n ELSE n

Rat(n, d) ==
    LET sn == IF d < 0 THEN -n ELSE n
        sd == IAbs(d)
        g  == GCD(IAbs(sn), sd)
    IN  <<sn \div g, sd \div g>>

RI(n) ==
    <<n, 1>>

RAdd(x, y) ==
    Rat(x[1] * y[2] + y[1] * x[2], x[2] * y[2])

RSub(x, y) ==
    Rat(x[1] * y[2] - y[1] * x[2], x[2] * y[2])

RMul(x, y) ==
    Rat(x[1] * y[1], x[2] * y[2])

RDiv(x, y) ==
    Rat(x[1] * y[2], x[2] * y[1])

RLt(x, y) ==
    x[1] * y[2] < y[1] * x[2]

RLe(x, y) ==
    x[1] * y[2] <= y[1] * x[2]

RGt(x, y) ==
    RLt(y, x)

RAbs(x) ==
    <<IAbs(x[1]), x[2]>>

\* Python's float %: x - m*floor(x/m), the sign of the result follows m
RMod(x, m) ==
    LET q == RDiv(x, m)
    IN  RSub(x, RMul(m, RI(q[1] \div q[2])))

RMax(S) ==
    CHOOSE x \in S : \A y \in S : RLe(y, x)

RMin(S) ==
    CHOOSE x \in S : \A y \in S : RLe(x, y)

Zero == RI(0)
One  == RI(1)

Ok(v) ==
    [exc |-> FALSE, val |-> v]

Raised ==
    [exc |-> TRUE, val |-> <<>>]

(***************************************************************************)
(* hsv2rgb(h, s, v)                                                        *)
(***************************************************************************)
hsv2rgb(h, s, v) ==
    IF RGt(h, One) \/ RGt(s, One) \/ RGt(v, One)
    THEN Raised
    ELSE LET A1 == v
             A2 == RMul(v, RSub(One,
                      RMul(s, RAbs(RSub(RMod(RMul(h, RI(6)), RI(2)), One)))))
             A3 == RMul(v, RSub(One, s))
         IN  IF RLt(h, Rat(1, 6)) THEN Ok(<<A1, A2, A3>>)
             ELSE IF RLt(h, Rat(2, 6)) THEN Ok(<<A2, A1, A3>>)
             ELSE IF RLt(h, Rat(3, 6)) THEN Ok(<<A3, A1, A2>>)
             ELSE IF RLt(h, Rat(4, 6)) THEN Ok(<<A3, A2, A1>>)
             ELSE IF RLt(h, Rat(5, 6)) THEN Ok(<<A2, A3, A1>>)
             ELSE Ok(<<A1, A3, A2>>)

(***************************************************************************)
(* rgb2hsv(r, g, b)                                                        *)
(***************************************************************************)
\* the threshold 1E-6 below which delta counts as zero
DeltaTol ==
    Rat(1, 1000000)

rgb2hsv(r, g, b) ==
    IF RGt(r, One) \/ RGt(g, One) \/ RGt(b, One)
    THEN Raised
    ELSE LET Cmax  == RMax({r, g, b})
             Cmin  == RMin({r, g, b})
             delta == RSub(Cmax, Cmin)
             h == IF RLt(delta, DeltaTol) THEN Zero
                  ELSE IF Cmax = r
                       THEN RDiv(RMod(RDiv(RSub(g, b), delta), RI(6)), RI(6))
                  ELSE IF Cmax = g
                       THEN RDiv(RMod(RDiv(RSub(b, r), delta), RI(6)), RI(6))
                  ELSE RDiv(RMod(RDiv(RSub(r, g), delta), RI(6)), RI(6))
             s == IF Cmax = Zero THEN Zero ELSE RDiv(delta, Cmax)
         IN  Ok(<<h, s, Cmax>>)

(***************************************************************************)
(* Comparisons with the tolerance small = 1E-10 = 1/SmallRoot^2, computed  *)
(* in two steps so that no product leaves 32-bit integers.  Of the values  *)
(* within the tolerance of zero, only zero itself has a denominator small  *)
(* enough to be drawn as an input.                                         *)
(***************************************************************************)
SmallRoot == 100000

RNeg(x) ==
    <<-x[1], x[2]>>

\* x > small
GtSmall(x) ==
    x[1] > 0 /\ x[1] * SmallRoot > x[2] \div SmallRoot

\* x >= small
GeSmall(x) ==
    x[1] > 0 /\ x[1] * SmallRoot >= (x[2] + SmallRoot - 1) \div SmallRoot

\* x > -small
GtNegSmall(x) ==
    ~GeSmall(RNeg(x))

\* x >= -small
GeNegSmall(x) ==
    ~GtSmall(RNeg(x))

\* x < -small
LtNegSmall(x) ==
    GtSmall(RNeg(x))

(***************************************************************************)
(* get_grey_img(filename, I0, lam, T, ti, fs, MaxBox, frame, frame_col).   *)
(* The T data files are the sequence smps of grids of raw values, one      *)
(* value per pixel <<j, k>>.  val is IMG as it stands after line 124: the  *)
(* grid returned when noise is False, and the grid handed to add_noise     *)
(* when it is True.                                                        *)
(***************************************************************************)
BoxPixels(MaxBox) ==
    (0..(MaxBox[1] - 1)) \X (0..(MaxBox[2] - 1))

\* mutant of AccPixel: a value above 1 is added as it is, not as 1.0
AccPixel_unclamped(acc, raw, I0) ==
    LET I == RMul(raw, I0)
    IN  IF GeNegSmall(I) THEN [s |-> RAdd(acc.s, I), c |-> acc.c + 1]
        ELSE acc

\* lines 105-113: one value of one file
AccPixel(acc, raw, I0) ==
    LET I == RMul(raw, I0)
    IN  IF RGt(I, One) THEN [s |-> RAdd(acc.s, One), c |-> acc.c + 1]
        ELSE IF GeNegSmall(I) THEN [s |-> RAdd(acc.s, I), c |-> acc.c + 1]
        ELSE acc

\* lines 91-115: the files i = 0 .. T-1 in order
RECURSIVE Accumulate(_, _, _, _)
Accumulate(acc, smps, i, I0) ==
    IF i > Len(smps) THEN acc
    ELSE Accumulate([p \in DOMAIN acc |-> AccPixel(acc[p], smps[i][p], I0)],
                    smps, i + 1, I0)

\* mutant of ResolvePixel: the frame flag is read the wrong way round
ResolvePixel_flipped(acc, frame, frame_col) ==
    IF acc.c > 0 THEN RDiv(acc.s, RI(acc.c))
    ELSE IF frame THEN frame_col
    ELSE RI(-1)

\* lines 116-124: average, or the background where nothing was counted
ResolvePixel(acc, frame, frame_col) ==
    IF acc.c > 0 THEN RDiv(acc.s, RI(acc.c))
    ELSE IF frame THEN RI(-1)
    ELSE frame_col

\* mutant of BadTimeConfig: every static system is rejected
BadTimeConfig_anyT(ti, T) ==
    ti < 0 /\ T >= 1

\* line 79: the configuration that is rejected
BadTimeConfig(ti, T) ==
    ti < 0 /\ T > 1

get_grey_img(I0, T, ti, MaxBox, frame, frame_col, smps) ==
    IF BadTimeConfig(ti, T)
    THEN [exc |-> TRUE, val |-> <<>>, acc |-> <<>>, nread |-> 0]
    ELSE LET acc0 == [p \in BoxPixels(MaxBox) |-> [s |-> Zero, c |-> 0]]
             acc  == Accumulate(acc0, smps, 1, I0)
         IN  [exc |-> FALSE,
              val |-> [p \in BoxPixels(MaxBox) |->
                          ResolvePixel(acc[p], frame, frame_col)],
              acc |-> acc,
              nread |-> Len(smps)]

(***************************************************************************)
(* add_color(IMGs, lam_hues, frame_col, mix_type).                         *)
(*                                                                         *)
(* IMGs[<<i, j>>][lam_id] is the intensity of channel lam_id at the pixel; *)
(* lam_hues are whole degrees, multiples of 60.  For these, cos and sin    *)
(* are exact in the basis (1/2, sqrt(3)/2): cos = CosTwice/2, sin =        *)
(* SinUnit*sqrt(3)/2, so xres = X/2 and yres = Y*sqrt(3)/2 with X and Y    *)
(* rational, and the sextant of arctan2(yres, xres) is decided by          *)
(* comparing X with Y and -Y.                                              *)
(***************************************************************************)
HexIdx(hue) ==
    (hue \div 60) % 6

CosTwice(hue) ==
    <<2, 1, -1, -2, -1, 1>>[HexIdx(hue) + 1]

SinUnit(hue) ==
    <<0, 1, 1, 0, -1, -1>>[HexIdx(hue) + 1]

ImgPixels(consts) ==
    (0..(consts[1] - 1)) \X (0..(consts[2] - 1))

\* lines 426-430: foo, whether some channel is above -small
SomeChannel(pix) ==
    \E lam_id \in DOMAIN pix : GtNegSmall(pix[lam_id])

\* line 439: the channels that take part in the 'mt' mixture
Contributing(pix) ==
    {lam_id \in DOMAIN pix : GtSmall(pix[lam_id])}

\* lines 442-445: xres (as X = 2*xres) and yres (as Y = yres*2/sqrt(3))
RECURSIVE VecSum(_, _, _, _)
VecSum(pix, lam_hues, lam_id, xy) ==
    IF lam_id > Len(lam_hues) THEN xy
    ELSE VecSum(pix, lam_hues, lam_id + 1,
             IF GtSmall(pix[lam_id])
             THEN <<RAdd(xy[1], RMul(pix[lam_id], RI(CosTwice(lam_hues[lam_id])))),
                    RAdd(xy[2], RMul(pix[lam_id], RI(SinUnit(lam_hues[lam_id]))))>>
             ELSE xy)

\* line 451: sorted(Is), ascending
RECURSIVE Insert(_, _)
Insert(sq, x) ==
    IF sq = <<>> THEN <<x>>
    ELSE IF RLe(x, Head(sq)) THEN <<x>> \o sq
    ELSE <<Head(sq)>> \o Insert(Tail(sq), x)

RECURSIVE SortedIs(_, _)
SortedIs(pix, lam_id) ==
    IF lam_id = 0 THEN <<>>
    ELSE IF GtSmall(pix[lam_id]) THEN Insert(SortedIs(pix, lam_id - 1), pix[lam_id])
    ELSE SortedIs(pix, lam_id - 1)

\* positions strictly inside a sextant of the hue circle, as fractions of it
HueFracDen == 2

HueFracs ==
    {Rat(k, HueFracDen) : k \in 1..(HueFracDen - 1)}

InSextant(n) ==
    {RDiv(RAdd(RI(n), f), RI(6)) : f \in HueFracs}

\* line 454: the values np.arctan2(yres, xres)/(2*np.pi) can take, in turns
\* within [-1/2, 1/2].  Exact on the six rays of the hexagon; strictly inside
\* a sextant any position of HueFracs; any angle at all when the vectors
\* cancel (the residue of rounding decides).
ArcTan2Turns(Y, X) ==
    LET upper(y, x) ==
            IF RGt(x, y) THEN InSextant(0)
            ELSE IF x = y THEN {Rat(1, 6)}
            ELSE IF RGt(x, RNeg(y)) THEN InSextant(1)
            ELSE IF x = RNeg(y) THEN {Rat(2, 6)}
            ELSE InSextant(2)
    IN  IF Y = Zero /\ X = Zero
        THEN UNION {InSextant(n) \cup {Rat(n, 6)} : n \in 0..2}
             \cup {RNeg(h) : h \in UNION {InSextant(n) \cup {Rat(n, 6)} : n \in 0..2}}
             \cup {Rat(1, 2)}
        ELSE IF Y = Zero THEN (IF RGt(X, Zero) THEN {Zero} ELSE {Rat(1, 2)})
        ELSE IF RGt(Y, Zero) THEN upper(Y, X)
        ELSE {RNeg(h) : h \in upper(RNeg(Y), X)}

\* mutant of Saturation: the second largest intensity instead of the third
Saturation_second(Is) ==
    IF Len(Is) > 2 THEN RSub(One, RDiv(Is[Len(Is) - 1], Is[Len(Is)]))
    ELSE One

\* mutant of Saturation: the ratio of the largest to the third largest
Saturation_inverted(Is) ==
    IF Len(Is) > 2 THEN RSub(One, RDiv(Is[Len(Is)], Is[Len(Is) - 2]))
    ELSE One

\* lines 461-463: sres
Saturation(Is) ==
    IF Len(Is) > 2 THEN RSub(One, RDiv(Is[Len(Is) - 2], Is[Len(Is)]))
    ELSE One

\* mutant of Value: the smallest contributing intensity
Value_smallest(Is) ==
    Is[1]

\* line 458: vres
Value(Is) ==
    Is[Len(Is)]

Black ==
    <<Zero, Zero, Zero>>

\* lines 433-468: one pixel under 'mt'; at is the value of arctan2/(2 pi)
MixMT(pix, lam_hues, at) ==
    LET Is   == SortedIs(pix, Len(lam_hues))
        ncol == Len(Is)
        hres == IF RLt(at, Zero) THEN RAdd(at, One) ELSE at
        vres == Value(Is)
        sres == Saturation(Is)
        rgb  == hsv2rgb(hres, sres, vres)
    IN  IF ncol = 0 THEN [exc |-> FALSE, col |-> Black, hsv |-> <<>>]
        ELSE IF RGt(vres, One) THEN [exc |-> TRUE, col |-> <<>>, hsv |-> <<>>]
        ELSE IF RLt(sres, Zero) \/ RGt(sres, One)
             THEN [exc |-> TRUE, col |-> <<>>, hsv |-> <<>>]
        ELSE IF rgb.exc THEN [exc |-> TRUE, col |-> <<>>, hsv |-> <<>>]
        ELSE [exc |-> FALSE, col |-> rgb.val, hsv |-> <<hres, sres, vres>>]

\* lines 418-422: the saturated colour of every channel
Cols(lam_hues) ==
    [lam_id \in 1..Len(lam_hues) |-> hsv2rgb(Rat(lam_hues[lam_id], 360), One, One)]

\* lines 470-472: rgb += IMGs[i,j,lam_id]*cols[lam_id,:]
RECURSIVE RgbSum(_, _, _, _)
RgbSum(pix, cols, lam_id, k) ==
    IF lam_id = 0 THEN Zero
    ELSE RAdd(RgbSum(pix, cols, lam_id - 1, k), RMul(pix[lam_id], cols[lam_id].val[k]))

\* lines 469-477: one pixel under 'rgb'
MixRGB(pix, cols) ==
    [exc |-> FALSE,
     col |-> [k \in 1..3 |->
                 LET x == RgbSum(pix, cols, Len(pix), k)
                 IN  IF RGt(x, One) THEN One ELSE x],
     hsv |-> <<>>]

\* mutant of MarkPixel: the all-sentinel pixel is left at zero
MarkPixel_zero(pix, lam_hues, mix_type, cols, at) ==
    IF ~SomeChannel(pix) THEN [exc |-> FALSE, col |-> Black, hsv |-> <<>>]
    ELSE IF mix_type = "mt" THEN MixMT(pix, lam_hues, at)
    ELSE MixRGB(pix, cols)

\* lines 426-477: one pixel of the first pass
MarkPixel(pix, lam_hues, mix_type, cols, at) ==
    IF ~SomeChannel(pix)
    THEN [exc |-> FALSE, col |-> <<RI(-1), RI(-1), RI(-1)>>, hsv |-> <<>>]
    ELSE IF mix_type = "mt" THEN MixMT(pix, lam_hues, at)
    ELSE MixRGB(pix, cols)

\* lines 479-483: the final pass over one pixel
FinalPass(col, frame_col) ==
    [k \in 1..3 |-> IF LtNegSmall(col[k]) THEN frame_col ELSE col[k]]

\* ats[<<i, j>>] is the value arctan2/(2 pi) takes at the pixel
add_color(IMGs, lam_hues, frame_col, mix_type, ats) ==
    LET cols == IF mix_type = "rgb" THEN Cols(lam_hues) ELSE <<>>
        pre  == [p \in DOMAIN IMGs |->
                    MarkPixel(IMGs[p], lam_hues, mix_type, cols, ats[p])]
    IN  IF (\E lam_id \in DOMAIN cols : cols[lam_id].exc)
        THEN [exc |-> TRUE, pre |-> <<>>, hsv |-> <<>>, val |-> <<>>]
        ELSE IF \E p \in DOMAIN IMGs : pre[p].exc
        THEN [exc |-> TRUE, pre |-> <<>>, hsv |-> <<>>, val |-> <<>>]
        ELSE [exc |-> FALSE,
              pre |-> [p \in DOMAIN IMGs |-> pre[p].col],
              hsv |-> [p \in DOMAIN IMGs |-> pre[p].hsv],
              val |-> [p \in DOMAIN IMGs |-> FinalPass(pre[p].col, frame_col)]]

\* the values arctan2/(2 pi) can take at a pixel, where line 454 is reached
AtChoices(pix, lam_hues, mix_type) ==
    IF mix_type = "mt" /\ SomeChannel(pix) /\ Contributing(pix) # {}
    THEN LET xy == VecSum(pix, lam_hues, 1, <<Zero, Zero>>)
         IN  ArcTan2Turns(xy[2], xy[1])
    ELSE {Zero}

(***************************************************************************)
(* State.                                                                  *)
(***************************************************************************)
(***************************************************************************)
(* Arrays.  A numpy array is [sha |-> its shape, v |-> its cells]; the     *)
(* cells are indexed by index tuples that count from 0 as Python's do,     *)
(* while the components of a shape or of an index tuple are numbered from  *)
(* 1: sha[0] of the source is sha[1] here.                                 *)
(***************************************************************************)
Sentinel == RI(-1)

IndexError == <<>>

RECURSIVE Indices(_)
Indices(sha) ==
    IF sha = <<>> THEN {<<>>}
    ELSE {<<i>> \o t : i \in 0..(sha[1] - 1), t \in Indices(Tail(sha))}

\* I[idx]: a negative index counts from the end, an index outside
\* -n .. n-1 raises IndexError
At(I, idx) ==
    IF \A k \in 1..Len(idx) : idx[k] >= -I.sha[k] /\ idx[k] < I.sha[k]
    THEN I.v[[k \in 1..Len(idx) |->
                 IF idx[k] < 0 THEN idx[k] + I.sha[k] ELSE idx[k]]]
    ELSE IndexError

\* I[c,:,:] and I[c,:]
TakeFirst(I, c) ==
    [sha |-> Tail(I.sha),
     v   |-> [t \in Indices(Tail(I.sha)) |-> I.v[<<c>> \o t]]]

\* I[:,c,:,:]
TakeSecond(I, c) ==
    LET sha == <<I.sha[1]>> \o Tail(Tail(I.sha))
    IN  [sha |-> sha,
         v   |-> [t \in Indices(sha) |-> I.v[<<t[1], c>> \o Tail(t)]]]

(***************************************************************************)
(* get_bounds.                                                             *)
(***************************************************************************)
\* int(x/2+0.5)
sha_mid(x) ==
    (x + 1) \div 2

\* one scan loop: line[i] is the cell the i-th iteration reads; the loop
\* counts sentinels and breaks at the first other cell
ScanLoop(line) ==
    LET stops == {k \in 1..Len(line) : line[k] # Sentinel}
        k0    == CHOOSE k \in stops : \A m \in stops : k <= m
    IN  IF stops = {} THEN [exc |-> FALSE, n |-> Len(line)]
        ELSE IF line[k0] = IndexError THEN [exc |-> TRUE, n |-> 0]
        ELSE [exc |-> FALSE, n |-> k0 - 1]

HasZ(axes) ==
    axes \in {"ZYX", "ZXY", "ZCYX", "ZCXY"}

\* lines 578-610
BoundsZ(I, axes) ==
    LET sha == I.sha
        mid == <<sha_mid(sha[1]), sha_mid(sha[2]), sha_mid(sha[3])>>
        a   == IF axes \in {"ZXY", "ZCXY"}
               THEN <<0, sha[1], 0, sha[3], 0, sha[2]>>
               ELSE <<0, sha[1], 0, sha[2], 0, sha[3]>>
        s0  == ScanLoop([i \in 1..sha[3] |-> At(I, <<0, mid[2], i - 1>>)])
        s1  == ScanLoop([i \in 1..sha[3] |->
                            At(I, <<0, mid[2], sha[2] - 1 - (i - 1)>>)])
        s2  == ScanLoop([j \in 1..sha[2] |-> At(I, <<0, j - 1, mid[3]>>)])
        s3  == ScanLoop([j \in 1..sha[2] |->
                            At(I, <<0, sha[2] - 1 - (j - 1), mid[3]>>)])
        s4  == ScanLoop([k \in 1..sha[1] |-> At(I, <<k - 1, mid[2], mid[3]>>)])
        s5  == ScanLoop([k \in 1..sha[1] |->
                            At(I, <<sha[1] - 1 - (k - 1), mid[2], mid[3]>>)])
    IN  IF s0.exc \/ s1.exc \/ s2.exc \/ s3.exc \/ s4.exc \/ s5.exc
        THEN Raised
        ELSE Ok(<<a[1] + s0.n, a[2] - s1.n, a[3] + s2.n, a[4] - s3.n,
                  a[5] + s4.n, a[6] - s5.n>>)

\* lines 612-635
Bounds2D(I, axes) ==
    LET sha == I.sha
        mid == <<sha_mid(sha[1]), sha_mid(sha[2])>>
        a   == IF axes \in {"CYX", "YX"}
               THEN <<0, sha[1], 0, sha[2]>>
               ELSE <<0, sha[2], 0, sha[1]>>
        s0  == ScanLoop([i \in 1..sha[2] |-> At(I, <<mid[1], i - 1>>)])
        s1  == ScanLoop([i \in 1..sha[2] |->
                            At(I, <<mid[1], sha[2] - 1 - (i - 1)>>)])
        s2  == ScanLoop([i \in 1..sha[1] |-> At(I, <<i - 1, mid[2]>>)])
        s3  == ScanLoop([i \in 1..sha[1] |->
                            At(I, <<sha[1] - 1 - (i - 1), mid[2]>>)])
    IN  IF s0.exc \/ s1.exc \/ s2.exc \/ s3.exc
        THEN Raised
        ELSE Ok(<<a[1] + s0.n, a[2] - s1.n, a[3] + s2.n, a[4] - s3.n>>)

get_bounds(IMG, axes) ==
    LET I == IF axes \in {"CYX", "CXY"} THEN TakeFirst(IMG, 0)
             ELSE IF axes \in {"ZCYX", "ZCXY"} THEN TakeSecond(IMG, 0)
             ELSE IMG
    IN  IF HasZ(axes) THEN BoundsZ(I, axes) ELSE Bounds2D(I, axes)

(***************************************************************************)
(* intensity2image.                                                        *)
(***************************************************************************)
\* np.iinfo(dtype).max
iinfo_max(dtype) ==
    IF dtype = "uint8" THEN 255 ELSE 65535

\* 'T' in axes, and axes[1:]
HasT(axes) ==
    axes \in {"TYX", "TXY", "TCYX", "TCXY"}

RestAxes(axes) ==
    CASE axes = "TYX" -> "YX"
      [] axes = "TXY" -> "XY"
      [] axes = "TCYX" -> "CYX"
      [] axes = "TCXY" -> "CXY"

\* mutant of QuantCell: the cast rounds to the nearest integer
QuantCell_rounded(v, maxI) ==
    LET x  == RMul(v, RI(maxI))
        hi == IF RGt(x, RI(maxI)) THEN RI(maxI) ELSE x
        lo == IF RLt(hi, Zero) THEN Zero ELSE hi
    IN  (2 * lo[1] + lo[2]) \div (2 * lo[2])

\* one cell through lines 558-566: I*maxI, I[I>maxI]=maxI, I[I<0]=0 and
\* the cast to the unsigned type, which drops the fraction
QuantCell(v, maxI) ==
    LET x  == RMul(v, RI(maxI))
        hi == IF RGt(x, RI(maxI)) THEN RI(maxI) ELSE x
        lo == IF RLt(hi, Zero) THEN Zero ELSE hi
    IN  lo[1] \div lo[2]

intensity2image(I, dtype, axes) ==
    LET maxI   == iinfo_max(dtype)
        bounds == IF HasT(axes)
                  THEN [i \in 1..I.sha[1] |->
                           get_bounds(TakeFirst(I, i - 1), RestAxes(axes))]
                  ELSE <<get_bounds(I, axes)>>
    IN  IF \E i \in 1..Len(bounds) : bounds[i].exc
        THEN [exc |-> TRUE, val |-> <<>>, bounds |-> <<>>]
        ELSE [exc    |-> FALSE,
              val    |-> [sha |-> I.sha,
                          v   |-> [t \in DOMAIN I.v |-> QuantCell(I.v[t], maxI)]],
              bounds |-> [i \in 1..Len(bounds) |-> bounds[i].val]]

(***************************************************************************)
(* add_noise.  The Poisson and Gaussian samples the call draws are given   *)
(* to it: the k-th pixel it visits takes ps[k] and gs[k], cyclically.      *)
(***************************************************************************)
\* int(n/2)-1, the index of the scanned row or column
CentreIdx(n) ==
    n \div 2 - 1

\* lines 505-509: one pass of the scan loop over line[k..], from the
\* counts <<x0, xL>> reached so far
RECURSIVE ScanFrame(_, _, _)
ScanFrame(line, k, cnt) ==
    IF k > Len(line) THEN cnt
    ELSE IF line[k] = Sentinel /\ cnt[2] = 0
         THEN ScanFrame(line, k + 1, <<cnt[1] + 1, cnt[2]>>)
    ELSE IF RGt(line[k], Rat(-1, 2))
         THEN ScanFrame(line, k + 1, <<cnt[1], cnt[2] + 1>>)
    ELSE ScanFrame(line, k + 1, cnt)

\* lines 503-514: x0, xL from the scanned column, y0, yL from the scanned row
DetectRect(I) ==
    LET dims == I.sha
        xs   == ScanFrame([i \in 1..dims[1] |->
                              At(I, <<i - 1, CentreIdx(dims[2])>>)], 1, <<0, 0>>)
        ys   == ScanFrame([j \in 1..dims[2] |->
                              At(I, <<CentreIdx(dims[1]), j - 1>>)], 1, <<0, 0>>)
    IN  [x0 |-> xs[1], xL |-> xs[2], y0 |-> ys[1], yL |-> ys[2]]

\* lines 515-516: the pixels the double loop visits, in its order
NoisePixels(r) ==
    [k \in 1..(r.xL * r.yL) |->
        <<r.x0 + ((k - 1) \div r.yL), r.y0 + ((k - 1) % r.yL)>>]

Cyc(seq, k) ==
    seq[((k - 1) % Len(seq)) + 1]

\* lines 517-523 on one pixel of value v, with the samples P and G
NoisePixel(v, poi, P, G) ==
    LET x == RAdd(RAdd(G, RMul(poi, Rat(P, 255))), RMul(v, RSub(One, poi)))
    IN  IF RGt(x, One) THEN One
        ELSE IF RLt(x, Zero) THEN Zero
        ELSE x

\* np.random.poisson(lam): ValueError when lam < 0, always 0 when lam = 0
PoissonRaises(v) ==
    RLt(RMul(RI(255), v), Zero)

PoissonDraw(v, P) ==
    IF v = Zero THEN 0 ELSE P

\* np.random.normal(0, gauss): always 0 when gauss = 0
GaussDraw(gauss, G) ==
    IF gauss = Zero THEN Zero ELSE G

\* mutant of add_noise: negative values are set to 0 over the whole array
add_noise_clampall(I, poi, gauss, ps, gs) ==
    LET order == NoisePixels(DetectRect(I))
        bad   == {k \in 1..Len(order) : PoissonRaises(I.v[order[k]])}
        stop  == IF bad = {} THEN Len(order) + 1
                 ELSE CHOOSE k \in bad : \A m \in bad : k <= m
        new(t) == LET k == CHOOSE k \in 1..Len(order) : order[k] = t
                  IN  NoisePixel(I.v[t], poi, PoissonDraw(I.v[t], Cyc(ps, k)),
                                 GaussDraw(gauss, Cyc(gs, k)))
    IN  [exc |-> bad # {},
         I   |-> [sha |-> I.sha,
                  v   |-> [t \in DOMAIN I.v |->
                              IF \E k \in 1..(stop - 1) : order[k] = t
                              THEN new(t)
                              ELSE IF RLt(I.v[t], Zero) THEN Zero
                              ELSE I.v[t]]]]

\* the array is changed in place: when a draw raises, the pixels visited
\* before it keep their new values
add_noise(I, poi, gauss, ps, gs) ==
    LET order == NoisePixels(DetectRect(I))
        bad   == {k \in 1..Len(order) : PoissonRaises(I.v[order[k]])}
        stop  == IF bad = {} THEN Len(order) + 1
                 ELSE CHOOSE k \in bad : \A m \in bad : k <= m
        new(t) == LET k == CHOOSE k \in 1..Len(order) : order[k] = t
                  IN  NoisePixel(I.v[t], poi, PoissonDraw(I.v[t], Cyc(ps, k)),
                                 GaussDraw(gauss, Cyc(gs, k)))
    IN  [exc |-> bad # {},
         I   |-> [sha |-> I.sha,
                  v   |-> [t \in DOMAIN I.v |->
                              IF \E k \in 1..(stop - 1) : order[k] = t
                              THEN new(t)
                              ELSE I.v[t]]]]

(***************************************************************************)
(* get_col_img, and the collectors and batch drivers.                      *)
(***************************************************************************)
\* np.transpose(A, (2,0,1)): XYC to CXY
Transpose201(A) ==
    LET sha == <<A.sha[3], A.sha[1], A.sha[2]>>
    IN  [sha |-> sha,
         v   |-> [t \in Indices(sha) |-> A.v[<<t[2], t[3], t[1]>>]]]

\* lines 304-309: IMGs[:,:,i] of each channel i, once no channel raised
ColStack(foos, MaxBox) ==
    [p \in BoxPixels(MaxBox) |-> [i \in 1..Len(foos) |-> foos[i].val[p]]]

\* the hues used are multiples of 60, where arctan2 has one value
ColAts(IMGs, lam_hues, mix_type) ==
    [p \in DOMAIN IMGs |->
        CHOOSE a \in AtChoices(IMGs[p], lam_hues, mix_type) : TRUE]

\* col_IMG as an array of axes XYC
ColArray(col, MaxBox) ==
    IF col.exc THEN Raised
    ELSE Ok([sha |-> <<MaxBox[1], MaxBox[2], 3>>,
             v   |-> [t \in Indices(<<MaxBox[1], MaxBox[2], 3>>) |->
                         col.val[<<t[1], t[2]>>][t[3] + 1]]])

\* line 312
ColMix(IMGs, lam_hues, MaxBox, mix_type) ==
    ColArray(add_color(IMGs, lam_hues, RI(-1), mix_type,
                       ColAts(IMGs, lam_hues, mix_type)), MaxBox)

ColChannels(foos, lam_hues, MaxBox, mix_type) ==
    IF \E i \in 1..Len(foos) : foos[i].exc THEN Raised
    ELSE ColMix(ColStack(foos, MaxBox), lam_hues, MaxBox, mix_type)

\* lines 304-313; smpss[i] are the files of channel i
get_col_img(lam_I0s, lam_hues, T, ti, MaxBox, mix_type, smpss) ==
    ColChannels([i \in 1..Len(lam_I0s) |->
                    get_grey_img(lam_I0s[i], T, ti, MaxBox, TRUE, One, smpss[i])],
                lam_hues, MaxBox, mix_type)

Collectors ==
    {"get_grey_3dimg", "get_col_3dimg", "plot_grey_2dtimg", "plot_col_2dtimg"}

SerialDrivers ==
    {"plot_grey_serial", "plot_col_serial"}

PoolDrivers ==
    {"plot_grey_mp", "plot_col_mp"}

ColourOps ==
    {"get_col_3dimg", "plot_col_2dtimg", "plot_col_serial", "plot_col_mp"}

DepthOps ==
    {"get_grey_3dimg", "get_col_3dimg"}

\* MaxBox of the units
UnitBox ==
    <<2, 2>>

\* at most MaxUnits depth slices or timesteps in a batch
MaxUnits == 3

\* the one .dat file unit n reads: "empty" holds the frame value at every
\* pixel, "content" an intensity that tells the units apart
UnitFile(n, kind) ==
    [p \in BoxPixels(UnitBox) |->
        IF kind = "empty" THEN RI(-1) ELSE Rat(n + 1, MaxUnits + 1)]

\* IMG of get_grey_img as an array of axes XY
GreyArray(r, MaxBox) ==
    IF r.exc THEN Raised ELSE Ok([sha |-> MaxBox, v |-> r.val])

\* the computation of unit n: get_grey_img or get_col_img on its file, with
\* T = 1 and one wavelength of hue 0; open() at line 99 raises when the
\* file is missing
RunUnit(op, n, kind) ==
    IF kind = "missing" THEN Raised
    ELSE IF op \in ColourOps
    THEN get_col_img(<<One>>, <<0>>, 1, 0, UnitBox, "mt", <<<<UnitFile(n, kind)>>>>)
    ELSE GreyArray(get_grey_img(One, 1, 0, UnitBox, TRUE, RI(-1),
                                <<UnitFile(n, kind)>>), UnitBox)

\* mutant of StarmapResults: the results in the order of arrival
StarmapResults_arrival(res, order) ==
    [k \in 1..Len(res) |-> res[order[k]]]

\* what pool.starmap returns once every task has finished without raising:
\* res[k] is the result of the k-th argument tuple, order the sequence of
\* task positions in the order the workers finished them
StarmapResults(res, order) ==
    [k \in 1..Len(res) |-> res[k]]

\* lines 935-945 and 1110-1121, from slice n on: bs[n] is bounds_i[0] of
\* slice n-1, st the values of cnt, z0, zL and bounds reached so far
RECURSIVE DepthScan(_, _, _)
DepthScan(bs, n, st) ==
    IF n > Len(bs) THEN st
    ELSE LET b  == bs[n]
             s1 == IF b[1] > b[2] /\ b[3] > b[4] /\ st.cnt = 1
                   THEN [st EXCEPT !.zL = n - 1, !.zLset = TRUE, !.cnt = 2]
                   ELSE st
             s2 == IF b[1] < b[2] /\ b[3] < b[4] /\ s1.cnt = 0
                   THEN [s1 EXCEPT !.bounds = b, !.z0 = n - 1, !.cnt = 1]
                   ELSE s1
         IN  DepthScan(bs, n + 1, s2)

\* lines 936, 1111-1112, 1067 and 1238-1239: intensity2image of each
\* result, which a colour operation first transposes to CXY
Quantized(op, results) ==
    [n \in 1..Len(results) |->
        intensity2image(IF op \in ColourOps THEN Transpose201(results[n])
                        ELSE results[n],
                        "uint8",
                        IF op \in ColourOps THEN "CXY" ELSE "XY")]

\* lines 946-948 and 1122-1124: bounds is bound only once cnt has left 0,
\* and get_col_3dimg binds zL only in its loop
Volume3d(qs, st) ==
    IF st.cnt = 0 \/ ~st.zLset THEN Raised
    ELSE Ok([img    |-> [k \in 1..Len(qs) |-> qs[Len(qs) - k + 1].val],
             bounds |-> <<<<st.z0, st.zL>> \o st.bounds>>])

\* lines 934-948 and 1109-1124
Assemble3d(op, qs) ==
    IF \E n \in 1..Len(qs) : qs[n].exc THEN Raised
    ELSE Volume3d(qs, DepthScan([n \in 1..Len(qs) |-> qs[n].bounds[1]], 1,
                                [cnt |-> 0, z0 |-> 0, zL |-> Len(qs),
                                 bounds |-> <<>>,
                                 zLset |-> (op = "get_grey_3dimg")]))

RECURSIVE Concat(_, _)
Concat(seqs, n) ==
    IF n = 0 THEN <<>> ELSE Concat(seqs, n - 1) \o seqs[n]

\* lines 1065-1069 and 1236-1241
Assemble2dt(op, qs) ==
    IF \E i \in 1..Len(qs) : qs[i].exc THEN Raised
    ELSE Ok([img    |-> [i \in 1..Len(qs) |-> qs[i].val],
             bounds |-> Concat([i \in 1..Len(qs) |-> qs[i].bounds], Len(qs))])

\* a depth collector returns its volume, a time collector writes it
Returned(op, r) ==
    [exc   |-> r.exc,
     ret   |-> IF op \in DepthOps THEN r.val ELSE <<>>,
     files |-> IF op \in DepthOps \/ r.exc THEN {} ELSE {<<"tiff", r.val>>}]

Collected(op, qs) ==
    Returned(op, IF op \in DepthOps THEN Assemble3d(op, qs)
                 ELSE Assemble2dt(op, qs))

\* the rest of the operation once results holds every unit's result: the
\* value returned, and the file the operation itself writes
Finish(op, results) ==
    IF op \in Collectors THEN Collected(op, Quantized(op, results))
    ELSE [exc |-> FALSE, ret |-> <<>>, files |-> {}]

\* the file a unit of a driver writes (plot_grey_img, plot_col_img)
UnitFiles(op, k) ==
    IF op \in SerialDrivers \cup PoolDrivers THEN {<<"img", k - 1>>} ELSE {}

(***************************************************************************)
(* The timesteps of a time series.  The exporters count their frames with  *)
(* tN and compute ti = tbegin + tdiff*i; the drivers sweep a range.        *)
(***************************************************************************)
TimeExporters ==
    {"plot_grey_2dtimg", "plot_grey_3dtimg", "plot_col_2dtimg", "plot_col_3dtimg"}

\* int(a/b) for an integer a and b > 0: the quotient without its fraction,
\* which is towards zero for a negative a
PyInt(a, b) ==
    IF a >= 0 THEN a \div b ELSE -((-a) \div b)

\* lines 1003, 1041, 1165 and 1205
tN(tbegin, tmax, tdiff) ==
    PyInt(tmax - 1 - tbegin, tdiff) + 1

\* whether range(tbegin, tmax, tdiff) has an element of index i
RangeHas(tbegin, tmax, tdiff, i) ==
    tbegin + tdiff * i < tmax

VARIABLES
    cd_op,      \* the codec call made: "none", "hsv2rgb", "rgb2hsv", "roundtrip"
    cd_in,      \* its three arguments
    cd_mid,     \* roundtrip: what rgb2hsv returned
    cd_out,     \* what the call returned
    gg_op,      \* "none", or "get_grey_img" once it was called
    gg_in,      \* its arguments, and the files it was given
    gg_out,     \* its result: exc, val (IMG), acc (sum and Cnt), nread
    ac_op,      \* "none", or "add_color" once it was called
    ac_in,      \* its arguments
    ac_out,     \* its result: exc, pre (col_IMG after the first pass), hsv, val
    gb_op,      \* "none", or "get_bounds" once it was called
    gb_in,      \* its arguments IMG and axes
    gb_out,     \* what it returned: the list a, or the exception
    iq_op,      \* "none", or "intensity2image" once it was called
    iq_in,      \* its arguments I, dtype and axes
    iq_out,     \* what it returned: exc, val (the cast array), bounds
    an_op,      \* "none", or "add_noise" once it was called
    an_in,      \* its arguments I, poi, gauss and the samples it drew
    an_out,     \* exc, and I: the array as the call left it
    bt_op,      \* "none", or the collector or driver that was called
    bt_in,      \* mprocess, the pool size, and the kind of file of each unit
    bt_pc,      \* "idle", "pool", "serial", then "done" or "raised"
    bt_task,    \* per unit: "queued", "running", "done" or "failed"
    bt_res,     \* per unit: what it returned
    bt_order,   \* the units in the order they finished
    bt_files,   \* the image files written so far
    bt_ret,     \* what the operation returned
    sw_op,      \* "none", or the exporter or driver whose loop is followed
    sw_in,      \* its arguments tbegin, tmax and tdiff
    sw_pc,      \* "idle", "loop", then "done" or "raised"
    sw_ts       \* the timesteps its loop has taken so far

vars ==
    <<cd_op, cd_in, cd_mid, cd_out, gg_op, gg_in, gg_out, ac_op, ac_in, ac_out,
      gb_op, gb_in, gb_out,
      iq_op, iq_in, iq_out,
      an_op, an_in, an_out,
      bt_op, bt_in, bt_pc, bt_task, bt_res, bt_order, bt_files, bt_ret,
      sw_op, sw_in, sw_pc, sw_ts>>

acvars == <<ac_op, ac_in, ac_out>>

cdvars == <<cd_op, cd_in, cd_mid, cd_out>>

ggvars == <<gg_op, gg_in, gg_out>>

gbvars == <<gb_op, gb_in, gb_out>>

iqvars == <<iq_op, iq_in, iq_out>>

anvars == <<an_op, an_in, an_out>>

btvars == <<bt_op, bt_in, bt_pc, bt_task, bt_res, bt_order, bt_files, bt_ret>>

swvars == <<sw_op, sw_in, sw_pc, sw_ts>>

\* the components other than the codec, the accumulator and the mixer
exvars == <<gbvars, iqvars, anvars, btvars, swvars>>

\* colour components are drawn from k/CodecDen, k = 0 .. CodecDen+1 (one above 1)
CodecDen == 4

CodecVals ==
    {Rat(k, CodecDen) : k \in 0..(CodecDen + 1)}

\* at most MaxT files are averaged
MaxT == 2

\* MaxBox: two pixels in a row, or in a column
GreyBoxes ==
    {<<1, 2>>, <<2, 1>>}

\* raw file values: the frame, zero, and values that I0 scales to below,
\* exactly and above 1
RawVals ==
    {RI(-1), Zero, Rat(1, 2), Rat(3, 2)}

I0Vals ==
    {One, RI(2)}

FrameCols ==
    {One, Zero}

TiVals ==
    {-1, 0}

\* channel intensities: the sentinel, zero, two valid values, one above 1
MixVals ==
    {RI(-1), Zero, Rat(1, 2), One, Rat(3, 2)}

\* IMGs.shape[0:2] with lam_hues: three channels at one pixel, fewer
\* channels at two pixels in a row or in a column; 420 is a hue above 360
MixCases ==
    {<<<<1, 1>>, <<0, 120, 240>>>>,
     <<<<1, 1>>, <<0, 60, 120>>>>,
     <<<<1, 2>>, <<0, 180>>>>,
     <<<<2, 1>>, <<60, 300>>>>,
     <<<<1, 2>>, <<420>>>>}

MixFrameCols ==
    {One, RI(-1)}

MixTypes ==
    {"mt", "rgb"}

\* array cells of the bounds scans: the sentinel and one foreground value
Cells ==
    {Sentinel, One}

Grids(sha) ==
    {[sha |-> sha, v |-> f] : f \in [Indices(sha) -> Cells]}

\* the n x n grid whose outer border of width b is sentinel
Bordered(n, b) ==
    [sha |-> <<n, n>>,
     v   |-> [t \in Indices(<<n, n>>) |->
                 IF \E k \in 1..2 : t[k] < b \/ t[k] > n - 1 - b
                 THEN Sentinel ELSE One]]

\* bordered grids have up to MaxN rows
MaxN == 10

BorderedGrids ==
    {Bordered(n, b) : n \in 2..MaxN, b \in 0..(MaxN \div 2)}

GridShapes ==
    {<<1, 2>>, <<2, 1>>, <<2, 2>>, <<2, 3>>, <<3, 2>>, <<3, 3>>, <<2, 4>>, <<4, 2>>}

\* 2 x 2 planes whose two rows are equal, stacked into volumes
Planes ==
    {g \in Grids(<<2, 2>>) : \A x \in 0..1 : g.v[<<0, x>>] = g.v[<<1, x>>]}

UniformPlanes ==
    {g \in Planes : g.v[<<0, 0>>] = g.v[<<0, 1>>]}

\* the array whose k-th sub-array along the first axis is subs[k]
Stack(subs) ==
    LET sha == <<Len(subs)>> \o subs[1].sha
    IN  [sha |-> sha,
         v   |-> [t \in Indices(sha) |-> subs[t[1] + 1].v[Tail(t)]]]

StackSizes ==
    {2, 3}

Volumes3 ==
    {Stack(ps) : ps \in UNION {[1..n -> Planes] : n \in StackSizes}}

Volumes4 ==
    {Stack(vs) : vs \in UNION {[1..n -> {Stack(ps) : ps \in [1..c -> UniformPlanes]}] :
                                    n \in StackSizes, c \in StackSizes}}

\* volumes whose planes are not square
LongVolumes ==
    UNION {Grids(sha) : sha \in {<<2, 1, 2>>, <<2, 2, 1>>}}

BoundsCases ==
    ((UNION {Grids(sha) : sha \in GridShapes} \cup BorderedGrids)
        \X {"YX", "XY"})
    \cup (Volumes3 \X {"CYX", "CXY", "ZYX", "ZXY"})
    \cup (LongVolumes \X {"ZYX", "ZXY", "CYX", "CXY"})
    \cup (Volumes4 \X {"ZCYX", "ZCXY"})

\* float intensities handed to the quantizer: the sentinel, a small
\* negative value, zero, a value whose product has a fraction, 1 and 1.2
QuantVals ==
    {Sentinel, Rat(-1, 10), Zero, Rat(1, 2), One, Rat(6, 5)}

UniformArray(sha, c) ==
    [sha |-> sha, v |-> [t \in Indices(sha) |-> c]]

QuantCases ==
    ({[sha |-> <<2, 2>>, v |-> f] : f \in [Indices(<<2, 2>>) -> QuantVals]}
        \X {"XY"})
    \cup ({UniformArray(<<1, 2>>, c) : c \in QuantVals} \X {"XY", "YX"})
    \cup ({UniformArray(<<2, 2, 2>>, c) : c \in QuantVals} \X {"CXY", "CYX"})
    \cup ({Stack(<<UniformArray(<<2, 2>>, c), UniformArray(<<2, 2>>, d)>>) :
              c, d \in QuantVals} \X {"TYX", "TXY"})

DTypes ==
    {"uint8", "uint16"}

\* monochrome images given to add_noise: every 2 x 2 grid over the
\* sentinel, 0 and 1/2, and the sentinel patterns of longer grids
NoiseGrids ==
    {[sha |-> <<2, 2>>, v |-> f] :
        f \in [Indices(<<2, 2>>) -> {Sentinel, Zero, Rat(1, 2)}]}
    \cup UNION {{[sha |-> sha, v |-> f] :
                    f \in [Indices(sha) -> {Sentinel, Rat(1, 2)}]} :
                sha \in {<<1, 2>>, <<2, 1>>, <<2, 3>>, <<3, 2>>}}

\* poi and gauss
NoiseParams ==
    {<<Rat(1, 2), Zero>>, <<One, One>>, <<Rat(1, 2), Rat(1, 10)>>}

\* the samples of successive draws
PoissonSamples ==
    {<<0, 300>>, <<128, 0>>, <<300, 128>>}

GaussSamples ==
    {<<Zero, Rat(1, 4)>>, <<RI(-1), Zero>>, <<Rat(-1, 4), RI(2)>>}

UnitKinds ==
    {"empty", "content", "missing"}

\* mp.cpu_count()
CpuCounts ==
    {1, 2}

BatchCases ==
    (Collectors \X BOOLEAN) \cup (SerialDrivers \X {FALSE})
        \cup (PoolDrivers \X {TRUE})

\* timesteps are 0..MaxStep and tdiff is 1..MaxDiff
MaxStep == 4

MaxDiff == 3

SweepCases ==
    (TimeExporters \cup SerialDrivers \cup PoolDrivers)
        \X (0..MaxStep) \X (0..MaxStep) \X (1..MaxDiff)

Init ==
    /\ cd_op = "none"
    /\ cd_in = <<Zero, Zero, Zero>>
    /\ cd_mid = Ok(<<>>)
    /\ cd_out = Ok(<<>>)
    /\ gg_op = "none"
    /\ gg_in = <<>>
    /\ gg_out = <<>>
    /\ ac_op = "none"
    /\ ac_in = <<>>
    /\ ac_out = <<>>
    /\ gb_op = "none"
    /\ gb_in = <<>>
    /\ gb_out = <<>>
    /\ iq_op = "none"
    /\ iq_in = <<>>
    /\ iq_out = <<>>
    /\ an_op = "none"
    /\ an_in = <<>>
    /\ an_out = <<>>
    /\ bt_op = "none"
    /\ bt_in = <<>>
    /\ bt_pc = "idle"
    /\ bt_task = <<>>
    /\ bt_res = <<>>
    /\ bt_order = <<>>
    /\ bt_files = {}
    /\ bt_ret = <<>>
    /\ sw_op = "none"
    /\ sw_in = <<>>
    /\ sw_pc = "idle"
    /\ sw_ts = <<>>

CallHsv2Rgb ==
    /\ cd_op = "none"
    /\ \E h \in CodecVals, s \in CodecVals, v \in CodecVals :
        /\ cd_op' = "hsv2rgb"
        /\ cd_in' = <<h, s, v>>
        /\ cd_mid' = Ok(<<>>)
        /\ cd_out' = hsv2rgb(h, s, v)
        /\ UNCHANGED <<ggvars, acvars, exvars>>

CallRgb2Hsv ==
    /\ cd_op = "none"
    /\ \E r \in CodecVals, g \in CodecVals, b \in CodecVals :
        /\ cd_op' = "rgb2hsv"
        /\ cd_in' = <<r, g, b>>
        /\ cd_mid' = Ok(<<>>)
        /\ cd_out' = rgb2hsv(r, g, b)
        /\ UNCHANGED <<ggvars, acvars, exvars>>

\* hsv2rgb(rgb2hsv(r, g, b)), as get_region composes them
CallRoundTrip ==
    /\ cd_op = "none"
    /\ \E r \in CodecVals, g \in CodecVals, b \in CodecVals :
        LET hsv == rgb2hsv(r, g, b)
        IN  /\ cd_op' = "roundtrip"
            /\ cd_in' = <<r, g, b>>
            /\ cd_mid' = hsv
            /\ cd_out' = IF hsv.exc THEN Raised
                         ELSE hsv2rgb(hsv.val[1], hsv.val[2], hsv.val[3])
            /\ UNCHANGED <<ggvars, acvars, exvars>>

\* a call that fails at line 79 opens no file: it is given none
CallGetGreyImg ==
    /\ gg_op = "none"
    /\ \E I0 \in I0Vals, T \in 1..MaxT, ti \in TiVals, MaxBox \in GreyBoxes,
          frame \in BOOLEAN, frame_col \in FrameCols :
        \E smps \in IF BadTimeConfig(ti, T) THEN {<<>>}
                    ELSE [1..T -> [BoxPixels(MaxBox) -> RawVals]] :
            /\ gg_op' = "get_grey_img"
            /\ gg_in' = [I0 |-> I0, T |-> T, ti |-> ti, MaxBox |-> MaxBox,
                         frame |-> frame, frame_col |-> frame_col, smps |-> smps]
            /\ gg_out' = get_grey_img(I0, T, ti, MaxBox, frame, frame_col, smps)
            /\ UNCHANGED <<cdvars, acvars, exvars>>

CallAddColor ==
    /\ ac_op = "none"
    /\ \E case \in MixCases, frame_col \in MixFrameCols, mix_type \in MixTypes :
        LET consts == case[1]
            lam_hues == case[2]
        IN
        \E IMGs \in [ImgPixels(consts) -> [1..Len(lam_hues) -> MixVals]] :
            \E ats \in [ImgPixels(consts) -> UNION {AtChoices(IMGs[p], lam_hues, mix_type) :
                                                      p \in ImgPixels(consts)}] :
                /\ \A p \in ImgPixels(consts) :
                       ats[p] \in AtChoices(IMGs[p], lam_hues, mix_type)
                /\ ac_op' = "add_color"
                /\ ac_in' = [IMGs |-> IMGs, lam_hues |-> lam_hues,
                             frame_col |-> frame_col, mix_type |-> mix_type]
                /\ ac_out' = add_color(IMGs, lam_hues, frame_col, mix_type, ats)
                /\ UNCHANGED <<cdvars, ggvars, exvars>>

CallGetBounds ==
    /\ gb_op = "none"
    /\ \E c \in BoundsCases :
        /\ gb_op' = "get_bounds"
        /\ gb_in' = [IMG |-> c[1], axes |-> c[2]]
        /\ gb_out' = get_bounds(c[1], c[2])
    /\ UNCHANGED <<cdvars, ggvars, acvars, iqvars, anvars, btvars, swvars>>

CallIntensity2Image ==
    /\ iq_op = "none"
    /\ \E c \in QuantCases, dtype \in DTypes :
        /\ iq_op' = "intensity2image"
        /\ iq_in' = [I |-> c[1], dtype |-> dtype, axes |-> c[2]]
        /\ iq_out' = intensity2image(c[1], dtype, c[2])
    /\ UNCHANGED <<cdvars, ggvars, acvars, gbvars, anvars, btvars, swvars>>

CallAddNoise ==
    /\ an_op = "none"
    /\ \E I \in NoiseGrids, c \in NoiseParams, ps \in PoissonSamples :
        \E gs \in IF c[2] = Zero THEN {<<Zero>>} ELSE GaussSamples :
            /\ an_op' = "add_noise"
            /\ an_in' = [I |-> I, poi |-> c[1], gauss |-> c[2],
                         ps |-> ps, gs |-> gs]
            /\ an_out' = add_noise(I, c[1], c[2], ps, gs)
    /\ UNCHANGED <<cdvars, ggvars, acvars, gbvars, iqvars, btvars, swvars>>

\* the call of a collector or a driver, up to the point where the pool is
\* started or the serial loop is entered
CallBatch ==
    /\ bt_op = "none"
    /\ \E c \in BatchCases, n \in 1..MaxUnits :
        \E kinds \in [1..n -> UnitKinds],
           cpu \in IF c[2] THEN CpuCounts ELSE {1} :
            /\ bt_op' = c[1]
            /\ bt_in' = [mprocess |-> c[2], kinds |-> kinds,
                         cpus |-> IF c[1] \in PoolDrivers /\ n < cpu
                                  THEN n ELSE cpu]
            /\ bt_pc' = IF c[2] THEN "pool" ELSE "serial"
            /\ bt_task' = [k \in 1..n |-> "queued"]
            /\ bt_res' = [k \in 1..n |-> <<>>]
            /\ bt_order' = <<>>
            /\ bt_files' = {}
            /\ bt_ret' = <<>>
    /\ UNCHANGED <<cdvars, ggvars, acvars, gbvars, iqvars, anvars, swvars>>

\* a free worker takes the next task of the queue
WorkerStart ==
    /\ bt_pc = "pool"
    /\ \E k \in DOMAIN bt_task :
        /\ bt_task[k] = "queued"
        /\ \A m \in 1..(k - 1) : bt_task[m] # "queued"
        /\ Cardinality({m \in DOMAIN bt_task : bt_task[m] = "running"})
               < bt_in.cpus
        /\ bt_task' = [bt_task EXCEPT ![k] = "running"]
    /\ UNCHANGED <<bt_op, bt_in, bt_pc, bt_res, bt_order, bt_files, bt_ret>>
    /\ UNCHANGED <<cdvars, ggvars, acvars, gbvars, iqvars, anvars, swvars>>

\* unit k has finished with the outcome r; a unit of a driver that
\* returned has written its file
UnitEnds(k, r) ==
    /\ bt_task' = [bt_task EXCEPT ![k] = IF r.exc THEN "failed" ELSE "done"]
    /\ bt_res' = [bt_res EXCEPT ![k] = r.val]
    /\ bt_files' = IF r.exc THEN bt_files
                   ELSE bt_files \cup UnitFiles(bt_op, k)
    /\ bt_order' = Append(bt_order, k)

\* the operation ends with the outcome f
BatchEnds(f) ==
    /\ bt_pc' = IF f.exc THEN "raised" ELSE "done"
    /\ bt_files' = bt_files \cup f.files
    /\ bt_ret' = f.ret

\* a worker finishes its task: the unit returned or raised
WorkerFinish ==
    /\ bt_pc = "pool"
    /\ \E k \in DOMAIN bt_task :
        /\ bt_task[k] = "running"
        /\ UnitEnds(k, RunUnit(bt_op, k - 1, bt_in.kinds[k]))
    /\ UNCHANGED <<bt_op, bt_in, bt_pc, bt_ret>>
    /\ UNCHANGED <<cdvars, ggvars, acvars, gbvars, iqvars, anvars, swvars>>

\* starmap returns, or raises, once every task has finished; the operation
\* then runs to its end
PoolReturn ==
    /\ bt_pc = "pool"
    /\ \A k \in DOMAIN bt_task : bt_task[k] \in {"done", "failed"}
    /\ IF \E k \in DOMAIN bt_task : bt_task[k] = "failed"
       THEN /\ bt_pc' = "raised"
            /\ UNCHANGED <<bt_files, bt_ret>>
       ELSE BatchEnds(Finish(bt_op, StarmapResults(bt_res, bt_order)))
    /\ UNCHANGED <<bt_op, bt_in, bt_task, bt_res, bt_order>>
    /\ UNCHANGED <<cdvars, ggvars, acvars, gbvars, iqvars, anvars, swvars>>

\* one pass of the serial loop: the next unit is computed in the caller
SerialUnit ==
    /\ bt_pc = "serial"
    /\ Len(bt_order) < Len(bt_task)
    /\ UnitEnds(Len(bt_order) + 1,
                RunUnit(bt_op, Len(bt_order), bt_in.kinds[Len(bt_order) + 1]))
    /\ bt_pc' = IF bt_task'[Len(bt_order) + 1] = "failed" THEN "raised"
                ELSE "serial"
    /\ UNCHANGED <<bt_op, bt_in, bt_ret>>
    /\ UNCHANGED <<cdvars, ggvars, acvars, gbvars, iqvars, anvars, swvars>>

\* the serial loop is over; the operation runs to its end
SerialReturn ==
    /\ bt_pc = "serial"
    /\ Len(bt_order) = Len(bt_task)
    /\ BatchEnds(Finish(bt_op, bt_res))
    /\ UNCHANGED <<bt_op, bt_in, bt_task, bt_res, bt_order>>
    /\ UNCHANGED <<cdvars, ggvars, acvars, gbvars, iqvars, anvars, swvars>>

\* the call of an exporter or a driver, up to its loop over the timesteps;
\* np.zeros raises for a negative tN (lines 1005, 1042, 1171, 1210)
CallSweep ==
    /\ sw_op = "none"
    /\ \E c \in SweepCases :
        /\ sw_op' = c[1]
        /\ sw_in' = [tbegin |-> c[2], tmax |-> c[3], tdiff |-> c[4]]
        /\ sw_pc' = IF c[1] \in TimeExporters /\ tN(c[2], c[3], c[4]) < 0
                    THEN "raised" ELSE "loop"
        /\ sw_ts' = <<>>
    /\ UNCHANGED <<cdvars, ggvars, acvars, gbvars, iqvars, anvars, btvars>>

\* one pass of for i in range(tN): the frame of ti = tbegin + tdiff*i
ExporterFrame ==
    /\ sw_pc = "loop"
    /\ sw_op \in TimeExporters
    /\ Len(sw_ts) < tN(sw_in.tbegin, sw_in.tmax, sw_in.tdiff)
    /\ sw_ts' = Append(sw_ts, sw_in.tbegin + sw_in.tdiff * Len(sw_ts))
    /\ UNCHANGED <<sw_op, sw_in, sw_pc>>
    /\ UNCHANGED <<cdvars, ggvars, acvars, gbvars, iqvars, anvars, btvars>>

\* one pass of for i in range(tbegin, tmax, tdiff)
DriverFrame ==
    /\ sw_pc = "loop"
    /\ sw_op \notin TimeExporters
    /\ RangeHas(sw_in.tbegin, sw_in.tmax, sw_in.tdiff, Len(sw_ts))
    /\ sw_ts' = Append(sw_ts, sw_in.tbegin + sw_in.tdiff * Len(sw_ts))
    /\ UNCHANGED <<sw_op, sw_in, sw_pc>>
    /\ UNCHANGED <<cdvars, ggvars, acvars, gbvars, iqvars, anvars, btvars>>

\* the loop is over
SweepReturn ==
    /\ sw_pc = "loop"
    /\ IF sw_op \in TimeExporters
       THEN Len(sw_ts) >= tN(sw_in.tbegin, sw_in.tmax, sw_in.tdiff)
       ELSE ~RangeHas(sw_in.tbegin, sw_in.tmax, sw_in.tdiff, Len(sw_ts))
    /\ sw_pc' = "done"
    /\ UNCHANGED <<sw_op, sw_in, sw_ts>>
    /\ UNCHANGED <<cdvars, ggvars, acvars, gbvars, iqvars, anvars, btvars>>

CodecNext ==
    \/ CallHsv2Rgb
    \/ CallRgb2Hsv
    \/ CallRoundTrip

SpecCodec == Init /\ [][CodecNext]_vars

GreyNext ==
    \/ CallGetGreyImg

SpecGrey == Init /\ [][GreyNext]_vars

MixerNext ==
    \/ CallAddColor

SpecMixer == Init /\ [][MixerNext]_vars

BoundsNext ==
    \/ CallGetBounds

SpecBounds == Init /\ [][BoundsNext]_vars

QuantNext ==
    \/ CallIntensity2Image

SpecQuant == Init /\ [][QuantNext]_vars

NoiseNext ==
    \/ CallAddNoise

SpecNoise == Init /\ [][NoiseNext]_vars

BatchNext ==
    \/ CallBatch
    \/ WorkerStart
    \/ WorkerFinish
    \/ PoolReturn
    \/ SerialUnit
    \/ SerialReturn

SpecBatch == Init /\ [][BatchNext]_vars

SweepNext ==
    \/ CallSweep
    \/ ExporterFrame
    \/ DriverFrame
    \/ SweepReturn

SpecSweep == Init /\ [][SweepNext]_vars

Next ==
    \/ CodecNext
    \/ GreyNext
    \/ MixerNext
    \/ BoundsNext
    \/ QuantNext
    \/ NoiseNext
    \/ BatchNext
    \/ SweepNext

Spec == Init /\ [][Next]_vars

(***************************************************************************)
(* Properties of the codec.                                                *)
(***************************************************************************)
InUnit(t) ==
    \A k \in 1..3 : RLe(Zero, t[k]) /\ RLe(t[k], One)

\* Smith's six-sector hexcone formula: value = max, saturation = delta/max,
\* hue in the sector of the dominant channel (red, then green, then blue)
StdHSV(r, g, b) ==
    LET Cmax  == RMax({r, g, b})
        Cmin  == RMin({r, g, b})
        delta == RSub(Cmax, Cmin)
        h == IF RLt(delta, DeltaTol) THEN Zero
             ELSE IF Cmax = r
                  THEN RDiv(RMod(RDiv(RSub(g, b), delta), RI(6)), RI(6))
             ELSE IF Cmax = g
                  THEN RDiv(RAdd(RDiv(RSub(b, r), delta), RI(2)), RI(6))
             ELSE RDiv(RAdd(RDiv(RSub(r, g), delta), RI(4)), RI(6))
        s == IF Cmax = Zero THEN Zero ELSE RDiv(delta, Cmax)
    IN  <<h, s, Cmax>>

\* C1: for every (r,g,b) in [0,1]^3, hsv2rgb(rgb2hsv(r,g,b)) returns (r,g,b)
\* again (grey inputs included: their hue is free, their RGB is reproduced).
C1_RoundTrip ==
    (cd_op = "roundtrip" /\ InUnit(cd_in)) => cd_out = Ok(cd_in)

\* C2: for every (r,g,b) in [0,1]^3, rgb2hsv returns the hue, saturation and
\* value of the standard six-sector formula (pure green 1/3, pure blue 2/3).
C2_StdFormula ==
    (cd_op = "rgb2hsv" /\ InUnit(cd_in)) =>
        cd_out = Ok(StdHSV(cd_in[1], cd_in[2], cd_in[3]))

\* the part of C1 and C2 the code does satisfy: red-dominant and grey colours
RedOrGrey(t) ==
    RMax({t[1], t[2], t[3]}) = t[1]

RoundTripRed ==
    (cd_op = "roundtrip" /\ InUnit(cd_in) /\ RedOrGrey(cd_in)) => cd_out = Ok(cd_in)

StdFormulaRed ==
    (cd_op = "rgb2hsv" /\ InUnit(cd_in) /\ RedOrGrey(cd_in)) =>
        cd_out = Ok(StdHSV(cd_in[1], cd_in[2], cd_in[3]))

(***************************************************************************)
(* Properties of get_grey_img.                                             *)
(***************************************************************************)
GreyReturned ==
    gg_op = "get_grey_img" /\ ~gg_out.exc

\* the scaled value of pixel p in file i of the call
SampleI(p, i) ==
    RMul(gg_in.smps[i][p], gg_in.I0)

SampleAbsent(p, i) ==
    LtNegSmall(SampleI(p, i))

SampleAbove(p, i) ==
    RGt(SampleI(p, i), One)

ExpCnt(p) ==
    Cardinality({i \in 1..gg_in.T : ~SampleAbsent(p, i)})

RECURSIVE ExpSum(_, _)
ExpSum(p, i) ==
    IF i = 0 THEN Zero
    ELSE RAdd(ExpSum(p, i - 1),
              IF SampleAbove(p, i) THEN One
              ELSE IF SampleAbsent(p, i) THEN Zero
              ELSE SampleI(p, i))

C6_BadConfig ==
    gg_op = "get_grey_img" =>
        /\ gg_out.exc <=> (gg_in.ti < 0 /\ gg_in.T > 1)
        /\ gg_out.exc => (gg_out.nread = 0 /\ gg_out.val = <<>>)
        /\ ~gg_out.exc => gg_out.nread = gg_in.T

\* the rejected call, and the static call with T = 1 that is accepted
C6_Witness ==
    /\ gg_op = "get_grey_img"
    /\ gg_in.ti < 0
    /\ gg_in.T > 1
    /\ gg_out.exc

C6_WitnessStatic ==
    /\ gg_op = "get_grey_img"
    /\ gg_in.ti < 0
    /\ gg_in.T = 1
    /\ ~gg_out.exc

(***************************************************************************)
(* Properties of add_color.                                                *)
(***************************************************************************)
MixReturned ==
    ac_op = "add_color" /\ ~ac_out.exc

MixPixels ==
    DOMAIN ac_in.IMGs

Chans ==
    1..Len(ac_in.lam_hues)

\* every channel reports the background sentinel at pixel p
AllSentinel(p) ==
    \A c \in Chans : ac_in.IMGs[p][c] = RI(-1)

\* the intensities above the tolerance at pixel p, by channel
Contrib(p) ==
    {c \in Chans : GtSmall(ac_in.IMGs[p][c])}

MaxI(p) ==
    RMax({ac_in.IMGs[p][c] : c \in Contrib(p)})

\* the third largest of the contributing intensities, counted with repeats
ThirdI(p) ==
    CHOOSE x \in {ac_in.IMGs[p][c] : c \in Contrib(p)} :
        /\ Cardinality({c \in Contrib(p) : RLe(x, ac_in.IMGs[p][c])}) >= 3
        /\ Cardinality({c \in Contrib(p) : RLt(x, ac_in.IMGs[p][c])}) <= 2

Comps(col) ==
    {col[k] : k \in 1..3}

\* C3: a value above 1 is always fatal: hsv2rgb and rgb2hsv raise when an
\* input exceeds 1, and add_color raises, under 'mt' and under 'rgb', when a
\* channel intensity at some pixel exceeds 1.
C3_OverRangeFatal ==
    /\ (cd_op \in {"hsv2rgb", "rgb2hsv"} /\ \E k \in 1..3 : RGt(cd_in[k], One))
           => cd_out.exc
    /\ (ac_op = "add_color"
          /\ \E p \in MixPixels : \E c \in Chans : RGt(ac_in.IMGs[p][c], One))
           => ac_out.exc

\* the part of C3 the code satisfies: the codec, and add_color under 'mt'
OverRangeFatalMt ==
    /\ (cd_op \in {"hsv2rgb", "rgb2hsv"} /\ \E k \in 1..3 : RGt(cd_in[k], One))
           => cd_out.exc
    /\ (ac_op = "add_color" /\ ac_in.mix_type = "mt"
          /\ \E p \in MixPixels : \E c \in Chans : RGt(ac_in.IMGs[p][c], One))
           => ac_out.exc

\* C7: under both policies, a pixel where every channel is the sentinel is
\* marked -1 by the first pass and has all three components equal to
\* frame_col in the returned image.
C7_MixerBackground ==
    MixReturned =>
        \A p \in MixPixels :
            AllSentinel(p) =>
                /\ ac_out.pre[p] = <<RI(-1), RI(-1), RI(-1)>>
                /\ ac_out.val[p] = <<ac_in.frame_col, ac_in.frame_col, ac_in.frame_col>>

\* an all-sentinel pixel next to a fluorescent one, resolved to white
C7_Witness ==
    /\ MixReturned
    /\ ac_in.frame_col = One
    /\ \E p, q \in MixPixels :
          /\ AllSentinel(p)
          /\ ac_out.val[p] = <<One, One, One>>
          /\ Contrib(q) # {}

\* C8: under 'mt', at a pixel that is not all-sentinel the largest output
\* component is the largest intensity above the tolerance; with no channel
\* above the tolerance the pixel is (0,0,0), whatever frame_col is.
C8_MtValue ==
    (MixReturned /\ ac_in.mix_type = "mt") =>
        \A p \in MixPixels :
            ~AllSentinel(p) =>
                IF Contrib(p) = {} THEN ac_out.val[p] = <<Zero, Zero, Zero>>
                ELSE RMax(Comps(ac_out.val[p])) = MaxI(p)

\* a pixel mixing two different intensities, and a black pixel whose only
\* live channel is at zero while frame_col is white
C8_Witness ==
    /\ MixReturned
    /\ ac_in.mix_type = "mt"
    /\ ac_in.frame_col = One
    /\ \E p, q \in MixPixels :
          /\ Cardinality({ac_in.IMGs[p][c] : c \in Contrib(p)}) = 2
          /\ RMax(Comps(ac_out.val[p])) = One
          /\ ~AllSentinel(q) /\ Contrib(q) = {}
          /\ ac_out.val[q] = <<Zero, Zero, Zero>>

\* C9: under 'mt' the saturation is 1 with one or two contributing channels
\* (smallest component 0) and 1 - third largest/largest with three or more;
\* when the three largest are equal the pixel is grey at the value.
C9_MtSaturation ==
    (MixReturned /\ ac_in.mix_type = "mt") =>
        \A p \in MixPixels :
            Contrib(p) # {} =>
                IF Cardinality(Contrib(p)) <= 2
                THEN /\ ac_out.hsv[p][2] = One
                     /\ RMin(Comps(ac_out.val[p])) = Zero
                ELSE /\ ac_out.hsv[p][2] = RSub(One, RDiv(ThirdI(p), MaxI(p)))
                     /\ RMin(Comps(ac_out.val[p])) = ThirdI(p)
                     /\ ThirdI(p) = MaxI(p) =>
                            ac_out.val[p] = <<MaxI(p), MaxI(p), MaxI(p)>>

\* three channels of intensity 1.0 at 0, 120 and 240 degrees give white
C9_Witness ==
    /\ MixReturned
    /\ ac_in.mix_type = "mt"
    /\ ac_in.lam_hues = <<0, 120, 240>>
    /\ \E p \in MixPixels :
          /\ \A c \in Chans : ac_in.IMGs[p][c] = One
          /\ ac_out.hsv[p][2] = Zero
          /\ ac_out.val[p] = <<One, One, One>>

\* three contributing channels of which the third largest is the smaller one
C9_WitnessPartial ==
    /\ MixReturned
    /\ ac_in.mix_type = "mt"
    /\ \E p \in MixPixels :
          /\ Cardinality(Contrib(p)) = 3
          /\ ac_out.hsv[p][2] = Rat(1, 2)

\* C10: under 'rgb', at a pixel that is not all-sentinel each output
\* component k is min(1, sum over the channels of intensity * triple[k]),
\* triple = hsv2rgb(hue/360, 1, 1).
C10_LinearRGB ==
    (MixReturned /\ ac_in.mix_type = "rgb") =>
        \A p \in MixPixels :
            ~AllSentinel(p) =>
                \A k \in 1..3 :
                    LET x == RgbSum(ac_in.IMGs[p], Cols(ac_in.lam_hues),
                                    Len(ac_in.lam_hues), k)
                    IN  ac_out.val[p][k] = IF RGt(x, One) THEN One ELSE x

\* the part of C10 the code satisfies: pixels with no sentinel channel
LinearRGBNoSentinel ==
    (MixReturned /\ ac_in.mix_type = "rgb") =>
        \A p \in MixPixels :
            (\A c \in Chans : ac_in.IMGs[p][c] # RI(-1)) =>
                \A k \in 1..3 :
                    LET x == RgbSum(ac_in.IMGs[p], Cols(ac_in.lam_hues),
                                    Len(ac_in.lam_hues), k)
                    IN  ac_out.val[p][k] = IF RGt(x, One) THEN One ELSE x

(***************************************************************************)
(* Properties of get_bounds.                                               *)
(***************************************************************************)
BoundsCalled ==
    gb_op = "get_bounds"

AllSentinelCells(I) ==
    \A t \in DOMAIN I.v : I.v[t] = Sentinel

\* C11: on the n x n grid in YX layout whose border of width b is sentinel
\* and whose interior is foreground, get_bounds returns the inclusive
\* interior range [b, n-1-b, b, n-1-b] ([2,7,2,7] for n = 10, b = 2).
C11_InclusiveInterior ==
    (BoundsCalled /\ gb_in.axes = "YX") =>
        \A n \in 2..(MaxN + 1), b \in 0..MaxN :
            (2 * b < n /\ gb_in.IMG = Bordered(n, b)) =>
                gb_out = Ok(<<b, n - 1 - b, b, n - 1 - b>>)

\* C12: on a grid of at least 2 rows and 2 columns whose every pixel is the
\* sentinel, in any of the layouts YX, XY, CYX, CXY, get_bounds returns
\* low > high for both axis pairs.
C12_EmptyDegenerate ==
    LET sha == gb_in.IMG.sha
        n   == Len(sha)
    IN  (/\ BoundsCalled
         /\ gb_in.axes \in {"YX", "XY", "CYX", "CXY"}
         /\ sha[n - 1] >= 2 /\ sha[n] >= 2
         /\ AllSentinelCells(gb_in.IMG)) =>
            /\ ~gb_out.exc
            /\ gb_out.val[1] > gb_out.val[2]
            /\ gb_out.val[3] > gb_out.val[4]

\* the indices that can be called the middle of an axis of n entries
MidIdx(n) ==
    {(n - 1) \div 2, n \div 2, sha_mid(n)} \cap (0..(n - 1))

\* the volume whose every depth slice is the slice m of I
Repeat(I, m) ==
    Stack([k \in 1..I.sha[1] |-> TakeFirst(I, m)])

InPlane(r) ==
    IF r.exc THEN r ELSE Ok(SubSeq(r.val, 1, 4))

\* C13: with a leading channel axis the plane scanned is the middle
\* channel, and with a depth axis the in-plane scans read the middle depth
\* slice.
C13_MidSlice ==
    BoundsCalled =>
        LET I == gb_in.IMG
            axes == gb_in.axes
        IN  /\ axes \in {"CYX", "CXY"} =>
                \E c \in MidIdx(I.sha[1]) :
                    gb_out = Bounds2D(TakeFirst(I, c), axes)
            /\ axes \in {"ZYX", "ZXY"} =>
                \E z \in MidIdx(I.sha[1]) :
                    InPlane(gb_out) = InPlane(BoundsZ(Repeat(I, z), axes))
            /\ axes \in {"ZCYX", "ZCXY"} =>
                \E c \in MidIdx(I.sha[2]), z \in MidIdx(I.sha[1]) :
                    InPlane(gb_out) =
                        InPlane(BoundsZ(Repeat(TakeSecond(I, c), z), axes))

(***************************************************************************)
(* Properties of intensity2image.                                          *)
(***************************************************************************)
QuantReturned ==
    iq_op = "intensity2image" /\ ~iq_out.exc

\* M = 2^w - 1 for the width w of the target type
MaxOfWidth(dtype) ==
    IF dtype = "uint8" THEN 2^8 - 1 ELSE 2^16 - 1

\* clamp(v * M, 0, M) without its fraction
ClampTrunc(v, M) ==
    IF RLt(v, Zero) THEN 0
    ELSE IF RGt(v, One) THEN M
    ELSE (v[1] * M) \div v[2]

\* C14: every value v of the float volume comes out as clamp(v*M, 0, M)
\* truncated, M = 2^w - 1: 1.0 and every v > 1 give M, every v < 0 gives 0,
\* and no output lies outside [0, M].
C14_Quantize ==
    QuantReturned =>
        LET M == MaxOfWidth(iq_in.dtype)
        IN  \A t \in DOMAIN iq_in.I.v :
                /\ iq_out.val.v[t] = ClampTrunc(iq_in.I.v[t], M)
                /\ iq_out.val.v[t] \in 0..M
                /\ RLe(One, iq_in.I.v[t]) => iq_out.val.v[t] = M
                /\ RLt(iq_in.I.v[t], Zero) => iq_out.val.v[t] = 0

\* a width-8 call that mapped 1.0 and 1.2 to 255, -0.1 and -1 to 0
C14_Witness ==
    /\ QuantReturned
    /\ iq_in.dtype = "uint8"
    /\ \E t1, t2, t3, t4 \in DOMAIN iq_in.I.v :
          /\ iq_in.I.v[t1] = One /\ iq_out.val.v[t1] = 255
          /\ iq_in.I.v[t2] = Rat(6, 5) /\ iq_out.val.v[t2] = 255
          /\ iq_in.I.v[t3] = Rat(-1, 10) /\ iq_out.val.v[t3] = 0
          /\ iq_in.I.v[t4] = Sentinel /\ iq_out.val.v[t4] = 0

\* a width-16 call that dropped the fraction of 0.5 * 65535
QuantTruncated ==
    /\ QuantReturned
    /\ iq_in.dtype = "uint16"
    /\ \E t \in DOMAIN iq_in.I.v :
          iq_in.I.v[t] = Rat(1, 2) /\ iq_out.val.v[t] = 32767

(***************************************************************************)
(* Properties of add_noise.                                                *)
(***************************************************************************)
NoiseCalled ==
    an_op = "add_noise"

\* pixel t lies in [x0, x0+xL) x [y0, y0+yL)
InRect(I, t) ==
    LET r == DetectRect(I)
    IN  /\ t[1] >= r.x0 /\ t[1] < r.x0 + r.xL
        /\ t[2] >= r.y0 /\ t[2] < r.y0 + r.yL

\* C15: every pixel outside the detected sub-rectangle
\* [x0, x0+xL) x [y0, y0+yL) has the value it had before the call, for
\* every grid and every sample drawn.
C15_OutsideUnchanged ==
    NoiseCalled =>
        \A t \in DOMAIN an_in.I.v :
            ~InRect(an_in.I, t) => an_out.I.v[t] = an_in.I.v[t]

\* a call that returned, changed a pixel of the rectangle and left a
\* sentinel pixel and a foreground pixel outside it
C15_Witness ==
    /\ NoiseCalled
    /\ ~an_out.exc
    /\ \E t, u, w \in DOMAIN an_in.I.v :
          /\ InRect(an_in.I, t) /\ an_out.I.v[t] # an_in.I.v[t]
          /\ ~InRect(an_in.I, u) /\ an_in.I.v[u] = Sentinel
          /\ ~InRect(an_in.I, w) /\ an_in.I.v[w] # Sentinel

\* cells in [0,1] or -1
UnitOrSentinel(I) ==
    \A t \in DOMAIN I.v :
        I.v[t] = Sentinel \/ (RLe(Zero, I.v[t]) /\ RLe(I.v[t], One))

\* C20: on a grid whose cells are in [0,1] or -1, whatever the shape of the
\* sentinel region, no Poisson sample is drawn with a negative rate and the
\* pixels equal to -1 after the call are those equal to -1 before it.
C20_ForegroundOnly ==
    (NoiseCalled /\ UnitOrSentinel(an_in.I)) =>
        /\ ~an_out.exc
        /\ \A t \in DOMAIN an_in.I.v :
              an_out.I.v[t] = Sentinel <=> an_in.I.v[t] = Sentinel

(***************************************************************************)
(* Properties of the collectors and the batch drivers.                     *)
(***************************************************************************)
BatchOver ==
    bt_pc \in {"done", "raised"}

\* what each unit of the call computes, by its index
UnitResults ==
    [k \in 1..Len(bt_in.kinds) |-> RunUnit(bt_op, k - 1, bt_in.kinds[k])]

SomeUnitRaises ==
    \E k \in 1..Len(bt_in.kinds) : UnitResults[k].exc

\* the outcome when the results are taken in the order of their indices,
\* as the serial loop appends them
ByIndex ==
    Finish(bt_op, [k \in 1..Len(bt_in.kinds) |-> UnitResults[k].val])

OutcomeByIndex ==
    IF SomeUnitRaises
    THEN bt_pc = "raised" /\ bt_ret = <<>> /\ bt_files = {}
    ELSE /\ bt_pc = IF ByIndex.exc THEN "raised" ELSE "done"
         /\ bt_ret = ByIndex.ret
         /\ bt_files = ByIndex.files

\* C16: in a pooled collector the place of each unit's result depends on
\* the unit's index only: whatever the order in which the workers finish,
\* the outcome is the one of the serial path.
C16_OrderIndependent ==
    (bt_op \in Collectors /\ bt_in.mprocess /\ BatchOver) => OutcomeByIndex

\* the serial path of the state machine has that outcome
SerialOutcome ==
    (bt_op \in Collectors /\ ~bt_in.mprocess /\ BatchOver) => OutcomeByIndex

\* a pooled get_grey_3dimg that returned a volume of three slices, two of
\* them different, after unit 1 finished before unit 0
C16_Witness ==
    /\ bt_op = "get_grey_3dimg" /\ bt_in.mprocess
    /\ bt_pc = "done"
    /\ Len(bt_order) = 3 /\ bt_order[1] = 2 /\ bt_order[2] = 1
    /\ bt_res[1] # bt_res[2]
    /\ bt_ret = ByIndex.ret

\* a pooled plot_grey_2dtimg that wrote its file after unit 1 finished first
PooledTimeSeries ==
    /\ bt_op = "plot_grey_2dtimg" /\ bt_in.mprocess
    /\ bt_pc = "done"
    /\ Len(bt_order) >= 2 /\ bt_order[1] = 2
    /\ bt_res[1] # bt_res[2]
    /\ bt_files = ByIndex.files /\ bt_files # {}

\* C17: when the computation of one unit raises, the batch operation
\* returns no volume and no image file has been written for any unit.
C17_NoPartial ==
    (BatchOver /\ \E k \in DOMAIN bt_task : bt_task[k] = "failed") =>
        bt_ret = <<>> /\ bt_files = {}

\* the part of C17 the collectors satisfy
NoPartialCollectors ==
    bt_op \in Collectors => C17_NoPartial

\* slice n of the volume that get_grey_3dimg or get_col_3dimg builds from
\* the result of depth step n
QuantSlice(k) ==
    IF bt_op = "get_col_3dimg"
    THEN intensity2image(Transpose201(UnitResults[k].val), "uint8", "CXY").val
    ELSE intensity2image(UnitResults[k].val, "uint8", "XY").val

\* C18: the volume returned by get_grey_3dimg and get_col_3dimg holds the
\* slice of depth step n at outer index n, for each n.
C18_DepthOrder ==
    (bt_op \in DepthOps /\ bt_pc = "done") =>
        \A k \in 1..Len(bt_in.kinds) : bt_ret.img[k] = QuantSlice(k)

\* what the code does: the slice of step n is at outer index nN-1-n
DepthReversed ==
    (bt_op \in DepthOps /\ bt_pc = "done") =>
        \A k \in 1..Len(bt_in.kinds) :
            bt_ret.img[Len(bt_in.kinds) - k + 1] = QuantSlice(k)

(***************************************************************************)
(* The composite image before background resolution.                       *)
(***************************************************************************)
\* add_color was called as get_col_img calls it, on channel grids whose
\* cells are in [0,1] or -1
CompositeCall ==
    /\ MixReturned
    /\ ac_in.frame_col = RI(-1)
    /\ \A p \in MixPixels : \A c \in Chans :
          \/ ac_in.IMGs[p][c] = RI(-1)
          \/ RLe(Zero, ac_in.IMGs[p][c]) /\ RLe(ac_in.IMGs[p][c], One)

\* C19: with frame_col = -1, under 'mt' and under 'rgb', a pixel where
\* every channel is the sentinel comes out as (-1,-1,-1) and every other
\* pixel has its three components in [0,1]; a pixel with sentinel and
\* foreground channels never gets a negative component.
C19_CompositeRange ==
    CompositeCall =>
        \A p \in MixPixels :
            IF AllSentinel(p)
            THEN ac_out.val[p] = <<RI(-1), RI(-1), RI(-1)>>
            ELSE InUnit(ac_out.val[p])

\* the part of C19 the code satisfies: the 'mt' policy, and under 'rgb' the
\* pixels where no channel or every channel is the sentinel
CompositeRangeUnmixed ==
    CompositeCall =>
        \A p \in MixPixels :
            (\/ ac_in.mix_type = "mt"
             \/ AllSentinel(p)
             \/ \A c \in Chans : ac_in.IMGs[p][c] # RI(-1)) =>
                IF AllSentinel(p)
                THEN ac_out.val[p] = <<RI(-1), RI(-1), RI(-1)>>
                ELSE InUnit(ac_out.val[p])

(***************************************************************************)
(* The bounds returned with a volume.                                      *)
(***************************************************************************)
VolumeReturned ==
    bt_op \in DepthOps /\ bt_pc = "done"

\* the pixels of the returned volume that hold content: the cast stores
\* the sentinel as 0, and the content of the units is positive
ContentAt(k) ==
    {t \in DOMAIN bt_ret.img[k].v : bt_ret.img[k].v[t] > 0}

\* the in-plane indices <<x, y>> of a cell of a slice of axes XY or CXY
PlaneXY(t) ==
    <<t[Len(t) - 1], t[Len(t)]>>

\* C21: every pixel of content of the returned volume lies at an outer
\* index inside the reported z-range and at in-plane indices inside the
\* reported y and x ranges (both ends of each range counted as inside).
C21_BoundsEnclose ==
    VolumeReturned =>
        LET b == bt_ret.bounds[1]
        IN  \A k \in 1..Len(bt_ret.img) : \A t \in ContentAt(k) :
                /\ b[1] <= k - 1 /\ k - 1 <= b[2]
                /\ b[3] <= PlaneXY(t)[2] /\ PlaneXY(t)[2] <= b[4]
                /\ b[5] <= PlaneXY(t)[1] /\ PlaneXY(t)[1] <= b[6]

\* what the code does: the z-range is the first run of depth steps with
\* content, z_hi being the step after its end, and the in-plane ranges are
\* those of the first slice of that run
FirstRunBounds ==
    VolumeReturned =>
        LET b  == bt_ret.bounds[1]
            ks == bt_in.kinds
        IN  /\ \A n \in 0..(Len(ks) - 1) :
                   (b[1] <= n /\ n < b[2]) => ks[n + 1] = "content"
            /\ \A n \in 0..(b[1] - 1) : ks[n + 1] = "empty"
            /\ b[2] = Len(ks) \/ ks[b[2] + 1] = "empty"
            /\ <<b[3], b[4], b[5], b[6]>> = <<0, UnitBox[2], 0, UnitBox[1]>>

\* a volume was returned whose content all lies inside the reported ranges
EnclosedVolume ==
    /\ VolumeReturned
    /\ \E k \in 1..Len(bt_ret.img) : ContentAt(k) # {}
    /\ C21_BoundsEnclose

(***************************************************************************)
(* Properties of the sweep over the timesteps.                             *)
(***************************************************************************)
SweepDone ==
    sw_pc = "done"

\* the timesteps tbegin, tbegin+tdiff, ... below tmax, in increasing order
RECURSIVE StepsBelow(_, _, _)
StepsBelow(t, tmax, tdiff) ==
    IF t >= tmax THEN <<>> ELSE <<t>> \o StepsBelow(t + tdiff, tmax, tdiff)

\* C22: for tbegin <= tmax and tdiff >= 1 a time-series exporter takes
\* exactly the timesteps tbegin, tbegin+tdiff, ... that are below tmax, and
\* its frame count tN is the length of range(tbegin, tmax, tdiff).
C22_FrameCount ==
    (SweepDone /\ sw_op \in TimeExporters /\ sw_in.tbegin <= sw_in.tmax) =>
        /\ sw_ts = StepsBelow(sw_in.tbegin, sw_in.tmax, sw_in.tdiff)
        /\ tN(sw_in.tbegin, sw_in.tmax, sw_in.tdiff)
               = Len(StepsBelow(sw_in.tbegin, sw_in.tmax, sw_in.tdiff))

\* the claim holds of an exporter when tbegin < tmax, or when tdiff = 1
FrameCountBelow ==
    (SweepDone /\ sw_op \in TimeExporters
        /\ (sw_in.tbegin < sw_in.tmax
               \/ (sw_in.tbegin = sw_in.tmax /\ sw_in.tdiff = 1))) =>
        sw_ts = StepsBelow(sw_in.tbegin, sw_in.tmax, sw_in.tdiff)

\* and of the drivers for all arguments
DriverSweep ==
    (SweepDone /\ sw_op \notin TimeExporters) =>
        sw_ts = StepsBelow(sw_in.tbegin, sw_in.tmax, sw_in.tdiff)

\* an exporter that took the timestep tmax
TakesTmax ==
    /\ SweepDone /\ sw_op \in TimeExporters
    /\ sw_in.tbegin = sw_in.tmax
    /\ sw_ts = <<sw_in.tmax>>

(***************************************************************************)
(* The scan for the z-range.                                               *)
(***************************************************************************)
\* every depth step of the call has its file, empty or with content
AllSlicesRead ==
    \A k \in 1..Len(bt_in.kinds) : bt_in.kinds[k] # "missing"

\* what the depth collector op does with the slices of this call: the
\* z-range it returns, or <<>> when it raises
ZRange(op) ==
    LET f == Finish(op, [k \in 1..Len(bt_in.kinds) |->
                            RunUnit(op, k - 1, bt_in.kinds[k]).val])
    IN  IF f.exc THEN <<>>
        ELSE <<f.ret.bounds[1][1], f.ret.bounds[1][2]>>

\* C23: for every sequence of nN >= 1 slices, each empty or not,
\* get_grey_3dimg and get_col_3dimg return a volume and bounds with
\* z_lo < z_hi <= nN, and both report the same z-range for the same
\* pattern of empty and non-empty slices.
C23_ScanTotal ==
    (bt_op \in DepthOps /\ BatchOver /\ AllSlicesRead) =>
        /\ bt_pc = "done"
        /\ bt_ret.bounds[1][1] < bt_ret.bounds[1][2]
        /\ bt_ret.bounds[1][2] <= Len(bt_in.kinds)
        /\ ZRange("get_grey_3dimg") = ZRange("get_col_3dimg")

\* what the code does: get_grey_3dimg returns such a z-range whenever a
\* slice has content
GreyScanReturns ==
    (bt_op = "get_grey_3dimg" /\ BatchOver /\ AllSlicesRead
        /\ \E k \in 1..Len(bt_in.kinds) : bt_in.kinds[k] = "content") =>
        /\ bt_pc = "done"
        /\ bt_ret.bounds[1][1] < bt_ret.bounds[1][2]
        /\ bt_ret.bounds[1][2] <= Len(bt_in.kinds)

\* and get_col_3dimg whenever an empty slice follows the first slice with
\* content, with the z-range of get_grey_3dimg
ColScanReturns ==
    (bt_op = "get_col_3dimg" /\ BatchOver /\ AllSlicesRead
        /\ \E k \in 1..Len(bt_in.kinds) : \E j \in (k + 1)..Len(bt_in.kinds) :
               bt_in.kinds[k] = "content" /\ bt_in.kinds[j] = "empty") =>
        /\ bt_pc = "done"
        /\ ZRange("get_grey_3dimg") = <<bt_ret.bounds[1][1], bt_ret.bounds[1][2]>>

\* get_col_3dimg raised on slices that all have content
ColScanRaises ==
    /\ bt_op = "get_col_3dimg" /\ bt_pc = "raised"
    /\ Len(bt_in.kinds) = MaxUnits
    /\ \A k \in 1..Len(bt_in.kinds) : bt_in.kinds[k] = "content"

\* get_grey_3dimg raised on slices that are all empty
GreyScanRaises ==
    /\ bt_op = "get_grey_3dimg" /\ bt_pc = "raised"
    /\ \A k \in 1..Len(bt_in.kinds) : bt_in.kinds[k] = "empty"

(***************************************************************************)
(* The range check of the saturation.                                      *)
(***************************************************************************)
MtCalled ==
    ac_op = "add_color" /\ ac_in.mix_type = "mt"

\* some channel intensity of the call is above 1, which line 459 rejects
SomeOverRange ==
    \E p \in MixPixels : \E c \in Chans : RGt(ac_in.IMGs[p][c], One)

\* C24: the saturation error of the 'mt' mixer is never raised: add_color
\* raises only when an intensity exceeds 1, and the saturation it computes
\* at every pixel with a contributing channel lies in [0,1].
C24_SaturationInRange ==
    MtCalled =>
        IF ac_out.exc THEN SomeOverRange
        ELSE \A p \in MixPixels :
                 Contrib(p) # {} =>
                     /\ RLe(Zero, ac_out.hsv[p][2])
                     /\ RLe(ac_out.hsv[p][2], One)

\* three contributing channels, the third largest below the largest: the
\* saturation is strictly between 0 and 1
C24_Witness ==
    /\ MtCalled /\ ~ac_out.exc
    /\ \E p \in MixPixels :
          /\ Cardinality(Contrib(p)) = 3
          /\ RLt(ThirdI(p), MaxI(p))
          /\ RGt(ac_out.hsv[p][2], Zero)
          /\ RLt(ac_out.hsv[p][2], One)

====
